---- MODULE Spec2Model ----
(***************************************************************************)
(* Model of image_download/make_examples.py: the coverage indexer          *)
(* (make_polygon_list) and the example extractor (make_examples), driven   *)
(* as the __main__ block drives them.                                      *)
(*                                                                         *)
(* File names are sequences of one-character strings, geographic and pixel *)
(* coordinates are integers, a point is <<x, y>>, a polygon is the         *)
(* sequence of its corners.                                                *)
(***************************************************************************)
EXTENDS Integers, Sequences, FiniteSets, TLC

(***************************************************************************)
(* Bounds of the model.                                                    *)
(***************************************************************************)
\* number of assets of the long asset list
NumBig == 120
\* number of make_polygon_list runs in one behaviour
MaxRuns == 2

(***************************************************************************)
(* Program constants.                                                      *)
(***************************************************************************)
\* len(dataset) % 50, line 195
CheckpointEvery == 50
\* the 8 of the random offset range, lines 144-145
Margin == 8
tower_height == 25
tower_width == 30

(***************************************************************************)
(* Strings.                                                                *)
(***************************************************************************)
TifSuffix == <<".", "t", "i", "f">>
PngSuffix == <<".", "p", "n", "g">>
\* the directory __main__ passes to make_polygon_list
path == <<".", "/">>

\* str.endswith(suffix)
endswith(s, suffix) ==
    /\ Len(s) >= Len(suffix)
    /\ SubSeq(s, Len(s) - Len(suffix) + 1, Len(s)) = suffix

\* os.path.join(p, f) for a relative f
join(p, f) ==
    IF Len(p) = 0 THEN f
    ELSE IF p[Len(p)] = "/" THEN p \o f
    ELSE p \o <<"/">> \o f

\* the directory entry a joined file name refers to
basename(file) == SubSeq(file, Len(path) + 1, Len(file))

Digits == <<"0", "1", "2", "3", "4", "5", "6", "7", "8", "9">>

RECURSIVE StrNat(_)
StrNat(n) ==
    IF n < 10 THEN <<Digits[n + 1]>>
    ELSE StrNat(n \div 10) \o <<Digits[(n % 10) + 1]>>

\* str(n) of an integer
Str(n) == IF n < 0 THEN <<"-">> \o StrNat(-n) ELSE StrNat(n)

\* int(v) of a number given in tenths (v = t / 10): truncation toward zero
IntOfTenths(t) == IF t >= 0 THEN t \div 10 ELSE -((-t) \div 10)

\* str(int(row.id)), line 151
AssetFilename(id10) == Str(IntOfTenths(id10))

(***************************************************************************)
(* Arithmetic.                                                             *)
(***************************************************************************)
\* np.around(n / d): round to nearest, ties to the even integer
around(n, d) ==
    LET nn == IF d < 0 THEN -n ELSE n
        dd == IF d < 0 THEN -d ELSE d
        q  == nn \div dd
        r  == nn % dd
    IN  IF 2 * r < dd THEN q
        ELSE IF 2 * r > dd THEN q + 1
        ELSE IF q % 2 = 0 THEN q ELSE q + 1

\* a // b of Python for b > 0 (floor)
floordiv(a, b) == a \div b

\* the values np.random.randint(low, high) can return (high is exclusive);
\* the call raises ValueError when the set is empty
randint(low, high) == low .. (high - 1)

\* the offsets line 144 / 145 can draw for a window of `size` pixels
OffsetRange(size) ==
    randint(floordiv(-size, 2) + Margin, floordiv(size, 2) - Margin)

Min(S) == CHOOSE v \in S : \A w \in S : v <= w
Max(S) == CHOOSE v \in S : \A w \in S : v >= w

(***************************************************************************)
(* The rasters on disk.  A raster has an origin, a pixel size, a size in   *)
(* pixels and a number of bands; readable = FALSE is a file gdal cannot    *)
(* open.                                                                   *)
(***************************************************************************)
NameA == <<"a", ".", "t", "i", "f">>
NameB == <<"b", ".", "t", "i", "f">>
NameC == <<"c", ".", "t", "i", "f">>
NameG == <<"g", ".", "t", "i", "f">>
NameU == <<"u", ".", "t", "i", "f">>
NameD == <<"d", ".", "p", "n", "g">>
NameE == <<"e", ".", "t", "i", "f", "f">>
NameT == <<"t", "i", "f">>
NameK == <<"k", ".", "t", "i", "f", ".", "b", "a", "k">>

Raster(ox, oy, psx, psy, cols, rows, nbands, readable) ==
    [ox |-> ox, oy |-> oy, psx |-> psx, psy |-> psy, cols |-> cols,
     rows |-> rows, nbands |-> nbands, readable |-> readable]

Disk(name) ==
    CASE name = NameA -> Raster(0, 0, 1, -1, 40, 40, 3, TRUE)
      [] name = NameB -> Raster(-20, 20, 2, -2, 40, 40, 3, TRUE)
      [] name = NameC -> Raster(1000, 0, 1, -1, 60, 60, 3, TRUE)
      [] name = NameG -> Raster(0, 0, 1, -1, 40, 40, 1, TRUE)
      [] name = NameU -> Raster(0, 0, 1, -1, 40, 40, 3, FALSE)
      [] OTHER        -> Raster(0, 0, 1, -1, 40, 40, 3, TRUE)

\* gdal.Info(file)["geoTransform"]
geoTransform(file) ==
    LET r == Disk(basename(file))
    IN  <<r.ox, r.psx, 0, r.oy, 0, r.psy>>

\* gdal.Info(file)["cornerCoordinates"]
cornerCoordinates(file) ==
    LET r == Disk(basename(file))
    IN  [upperLeft  |-> <<r.ox, r.oy>>,
         upperRight |-> <<r.ox + r.cols * r.psx, r.oy>>,
         lowerRight |-> <<r.ox + r.cols * r.psx, r.oy + r.rows * r.psy>>,
         lowerLeft  |-> <<r.ox, r.oy + r.rows * r.psy>>]

\* gdal.Info(file) / gdal.Open(file) succeed
Readable(file) == Disk(basename(file)).readable

\* the first band i in 1..3 for which bands[i-1].ReadAsArray(x, y, w, h)
\* cannot fill new_img[:,:,i-1] (0: all three reads succeed): the window
\* leaves the raster, or the raster has no such band
FailingBand(file, x, y, w, h) ==
    LET r == Disk(basename(file))
    IN  IF x < 0 \/ y < 0 \/ x + w > r.cols \/ y + h > r.rows THEN 1
        ELSE IF r.nbands < 3 THEN r.nbands + 1
        ELSE 0

(***************************************************************************)
(* Geometry.                                                               *)
(***************************************************************************)
\* shapely Polygon((a, b, c, d)): the ring through the corners in that order
Polygon(a, b, c, d) == <<a, b, c, d>>

\* TilePolygon with the two lower corners exchanged
TilePolygonSwapped(corners) ==
    Polygon(corners.upperLeft, corners.upperRight,
            corners.lowerLeft, corners.lowerRight)

\* lines 51-57
TilePolygon(corners) ==
    Polygon(corners.upperLeft, corners.upperRight,
            corners.lowerRight, corners.lowerLeft)

\* the point p lies in the (axis-parallel) footprint poly, border included
Covers(poly, p) ==
    LET xs == {poly[i][1] : i \in 1..Len(poly)}
        ys == {poly[i][2] : i \in 1..Len(poly)}
    IN  /\ Min(xs) <= p[1] /\ p[1] <= Max(xs)
        /\ Min(ys) <= p[2] /\ p[2] <= Max(ys)

\* gpd.sjoin(assets, coverage, how="inner"): one row per (asset, coverage
\* record) pair whose footprint holds the asset, ordered by asset and then
\* by coverage record
sjoin(as, cov) ==
    LET pairs == {p \in (1..Len(as)) \X (1..Len(cov)) :
                     Covers(cov[p[2]].geometry, as[p[1]].geometry)}
        before(p, q) == p[1] < q[1] \/ (p[1] = q[1] /\ p[2] < q[2])
        nth(n) == CHOOSE p \in pairs :
                     Cardinality({q \in pairs : before(q, p)}) = n - 1
    IN  [n \in 1..Cardinality(pairs) |->
            [id |-> as[nth(n)[1]].id, geometry |-> as[nth(n)[1]].geometry,
             filename |-> cov[nth(n)[2]].filename]]

(***************************************************************************)
(* Inputs.  An asset is a point feature with a numeric id, kept in tenths  *)
(* (75 is the id 7.5).                                                     *)
(***************************************************************************)
Asset(id10, x, y) == [id |-> id10, geometry |-> <<x, y>>]

AssetsOne == <<Asset(70, 21, -19)>>

AssetsMixed ==
    <<Asset(75, 21, -19), Asset(120, 3, -3), Asset(31, 500, 500),
      Asset(79, 25, -20)>>

AssetsBig ==
    [i \in 1..NumBig |->
        IF i % 7 = 3 THEN Asset(10 * i + 3, 1020 + (i % 10), -2)
        ELSE Asset(10 * i + 3, 1020 + (i % 10), -20 - (i % 5))]

Scenario(d, as, w, h) == [dir |-> d, assets |-> as, width |-> w, height |-> h]

Scenarios ==
    { Scenario(<<NameA, NameD, NameB>>, AssetsOne, 18, 20),
      Scenario(<<NameA, NameD, NameB>>, AssetsMixed, 18, 18),
      Scenario(<<NameA, NameD, NameB>>, AssetsMixed, 17, 17),
      Scenario(<<NameC, NameT, NameE, NameK>>, AssetsBig, 17, 17),
      Scenario(<<NameA, NameU>>, AssetsOne, 18, 18),
      Scenario(<<NameG, NameD>>, AssetsOne, 17, 17),
      Scenario(<<NameB, NameA>>, AssetsOne, 16, 18),
      Scenario(<<NameD>>, AssetsOne, 18, 18) }

\* max_length; 0 stands for "no cap" (None, or a length that len(dataset)
\* never equals after an append)
MaxLengths == {0, 1, 2, CheckpointEvery}

\* a vector file on disk
NoFile == [state |-> "absent", rows |-> <<>>]
CorruptFile == [state |-> "corrupt", rows |-> <<>>]
ValidFile(rows) == [state |-> "valid", rows |-> rows]

\* a Python return value
None == [isNone |-> TRUE, rows |-> <<>>]
Value(rows) == [isNone |-> FALSE, rows |-> rows]

NoCrop ==
    [px |-> 0, py |-> 0, offset |-> <<0, 0>>, x |-> 0, y |-> 0,
     filename |-> <<>>, status |-> "none"]

(***************************************************************************)
(* State.                                                                  *)
(***************************************************************************)
VARIABLES
    pc,            \* position of the script
    listing,       \* os.listdir(path)
    coverageFile,  \* sierra_leone_coverage.json
    runs,          \* make_polygon_list calls made so far
    resume_file,   \* make_polygon_list: TRUE when a resume file is passed
    tif_files,     \* make_polygon_list: the tile files found
    k,             \* make_polygon_list: position in tif_files
    coverage,      \* the Coverage Index being built / returned
    assets,        \* make_examples: the asset features
    max_length, width, height,
    matched,       \* make_examples: assets after the spatial join
    ti,            \* make_examples: position in coverage["filename"]
    tileRows,      \* make_examples: matched assets of the open tile
    ai,            \* make_examples: position in tileRows
    cur,           \* make_examples: pixel window of the asset in hand
    dataset,       \* make_examples: the Example Dataset
    images,        \* names of the image files in img_path
    datasetFile,   \* tower_examples.geojson
    nwrites,       \* number of to_file calls on tower_examples.geojson
    returned,      \* what make_examples returned
    exit           \* how make_examples ended

vars == <<pc, listing, coverageFile, runs, resume_file, tif_files, k, coverage,
          assets, max_length, width, height, matched, ti, tileRows, ai, cur,
          dataset, images, datasetFile, nwrites, returned, exit>>

indexerVars == <<resume_file, tif_files, k, coverage, runs, coverageFile>>
inputVars == <<listing, assets, max_length, width, height>>
extractorVars == <<matched, ti, tileRows, ai, cur, dataset, images,
                   datasetFile, nwrites, returned, exit>>

Init ==
    /\ pc = "main"
    /\ \E s \in Scenarios :
        /\ listing = s.dir
        /\ assets = s.assets
        /\ width = s.width
        /\ height = s.height
    /\ max_length \in MaxLengths
    /\ coverageFile \in {NoFile, CorruptFile}
    /\ runs = 0
    /\ resume_file = FALSE
    /\ tif_files = <<>>
    /\ k = 0
    /\ coverage = <<>>
    /\ matched = <<>>
    /\ ti = 0
    /\ tileRows = <<>>
    /\ ai = 0
    /\ cur = NoCrop
    /\ dataset = <<>>
    /\ images = {}
    /\ datasetFile = NoFile
    /\ nwrites = 0
    /\ returned = None
    /\ exit = "running"

(***************************************************************************)
(* make_polygon_list, lines 16-62.                                         *)
(***************************************************************************)
\* lines 37-39: the .tif entries of the directory, joined to the path
TifFiles(entries) ==
    LET tifs == SelectSeq(entries, LAMBDA f : endswith(f, TifSuffix))
    IN  [i \in 1..Len(tifs) |-> join(path, tifs[i])]

\* lines 42-46: the index to start from
StartingCoverage(resume, file) ==
    IF resume /\ file.state = "valid" THEN file.rows ELSE <<>>

\* lines 34-46: list the directory and load or create the index.  The
\* script calls this from __main__ (pc = "main"); a later call (pc =
\* "saved") is a rerun of the indexer on the same directory.
MplStart(resume) ==
    /\ pc \in {"main", "saved"}
    /\ runs < MaxRuns
    /\ runs' = runs + 1
    /\ resume_file' = resume
    /\ tif_files' = TifFiles(listing)
    /\ coverage' = StartingCoverage(resume, coverageFile)
    /\ k' = 1
    /\ pc' = "index"
    /\ UNCHANGED <<coverageFile, inputVars, extractorVars>>

\* lines 49-58, one iteration: a readable tile is appended
MplIndexTile ==
    /\ pc = "index"
    /\ k <= Len(tif_files)
    /\ Readable(tif_files[k])
    /\ LET file == tif_files[k]
           corners == cornerCoordinates(file)
           poly == TilePolygon(corners)
       IN  coverage' = Append(coverage, [filename |-> file, geometry |-> poly])
    /\ k' = k + 1
    /\ UNCHANGED <<pc, resume_file, tif_files, runs, coverageFile, inputVars,
                   extractorVars>>

\* lines 50-51 on a file gdal cannot read: the error is not caught
MplAbort ==
    /\ pc = "index"
    /\ k <= Len(tif_files)
    /\ ~Readable(tif_files[k])
    /\ pc' = "aborted"
    /\ UNCHANGED <<indexerVars, inputVars, extractorVars>>

\* lines 60-62: the index is returned to the caller
MplReturn ==
    /\ pc = "index"
    /\ k > Len(tif_files)
    /\ pc' = "indexed"
    /\ UNCHANGED <<indexerVars, inputVars, extractorVars>>

\* line 210: coverage.to_file("sierra_leone_coverage.json")
SaveCoverage ==
    /\ pc = "indexed"
    /\ coverageFile' = ValidFile(coverage)
    /\ pc' = "saved"
    /\ UNCHANGED <<resume_file, tif_files, k, coverage, runs, inputVars,
                   extractorVars>>

(***************************************************************************)
(* make_examples, lines 67-204.                                            *)
(***************************************************************************)
\* lines 129-148 and 151: the pixel window of one matched asset in the open
\* tile, for the drawn offset
CropWindow(row, image, offset) ==
    LET transform == geoTransform(image)
        upper_left == <<transform[1], transform[4]>>
        pixel_size == <<transform[2], transform[6]>>
        coords == row.geometry
        px == around(coords[1] - upper_left[1], pixel_size[1])
        py == around(coords[2] - upper_left[2], pixel_size[2])
    IN  [px |-> px, py |-> py, offset |-> offset,
         x |-> px - floordiv(width, 2) - offset[1],
         y |-> py - floordiv(height, 2) - offset[2],
         filename |-> AssetFilename(row.id),
         status |-> "drawn"]

\* lines 165-172: the footprint of the cropped window
ImagePolygon(image, crop) ==
    LET transform == geoTransform(image)
        upper_left == <<transform[1], transform[4]>>
        pixel_size == <<transform[2], transform[6]>>
        img_corner == <<upper_left[1] + crop.x * pixel_size[1],
                        upper_left[2] + crop.y * pixel_size[2]>>
    IN  Polygon(img_corner,
                <<img_corner[1] + pixel_size[1] * width, img_corner[2]>>,
                <<img_corner[1] + pixel_size[1] * width,
                  img_corner[2] + pixel_size[2] * height>>,
                <<img_corner[1], img_corner[2] + pixel_size[2] * height>>)

\* lines 174-183: the box of the tower in the crop, (ul_x, ul_y, lr_x, lr_y)
BBox(offset) ==
    LET ul == <<floordiv(width, 2) + offset[1], floordiv(height, 2) + offset[2]>>
    IN  <<ul[1] - floordiv(tower_width, 2),
          ul[2] - floordiv(tower_height, 2),
          ul[1] + floordiv(tower_width, 2),
          ul[2] + floordiv(tower_height, 2)>>

\* lines 186-192: the row appended to the dataset
ExampleRecord(image, crop) ==
    LET bbox == BBox(crop.offset)
    IN  [filename |-> crop.filename,
         ul_x |-> bbox[1], ul_y |-> bbox[2], lr_x |-> bbox[3], lr_y |-> bbox[4],
         geometry |-> ImagePolygon(image, crop)]

\* line 163: the image file written for a crop
ImageName(crop) == crop.filename \o PngSuffix

\* CheckpointDue one record early
CheckpointDueEarly(n) == (n + 1) % CheckpointEvery = 0

\* line 195
CheckpointDue(n) == n % CheckpointEvery = 0

\* CapReached comparing with > instead of ==
CapReachedLate(n, cap) == n > cap

\* line 200
CapReached(n, cap) == n = cap

\* lines 107-118: start of make_examples.  __main__ passes the index that
\* make_polygon_list built without a resume file (lines 209-213).
MeStart ==
    /\ pc = "saved"
    /\ ~resume_file
    /\ dataset' = <<>>
    /\ matched' = sjoin(assets, coverage)
    /\ ti' = 1
    /\ pc' = "tile"
    /\ UNCHANGED <<indexerVars, inputVars, tileRows, ai, cur, images,
                   datasetFile, nwrites, returned, exit>>

\* lines 121-134: open the next tile and select its matched assets
MeOpenTile ==
    /\ pc = "tile"
    /\ ti <= Len(coverage)
    /\ LET image == coverage[ti].filename
       IN  tileRows' = SelectSeq(matched, LAMBDA r : r.filename = image)
    /\ ai' = 1
    /\ pc' = "asset"
    /\ UNCHANGED <<indexerVars, inputVars, matched, ti, cur, dataset, images,
                   datasetFile, nwrites, returned, exit>>

\* lines 136-152: the window of the next asset, with a random offset
MeDraw(offset) ==
    /\ pc = "asset"
    /\ ai <= Len(tileRows)
    /\ offset[1] \in OffsetRange(width)
    /\ offset[2] \in OffsetRange(height)
    /\ cur' = CropWindow(tileRows[ai], coverage[ti].filename, offset)
    /\ pc' = "read"
    /\ UNCHANGED <<indexerVars, inputVars, matched, ti, tileRows, ai, dataset,
                   images, datasetFile, nwrites, returned, exit>>

\* lines 144-145 when randint has nothing to draw from: ValueError, uncaught.
\* Line 144 raises before line 145 is evaluated.
MeRandintError ==
    /\ pc = "asset"
    /\ ai <= Len(tileRows)
    /\ OffsetRange(width) = {} \/ OffsetRange(height) = {}
    /\ pc' = "aborted"
    /\ UNCHANGED <<indexerVars, inputVars, extractorVars>>

\* MeSkipAsset leaving the loop over the tile's assets (break for continue)
MeSkipAssetBreak ==
    /\ pc = "read"
    /\ FailingBand(coverage[ti].filename, cur.x, cur.y, width, height) # 0
    /\ cur' = [cur EXCEPT !.status = "skipped"]
    /\ ti' = ti + 1
    /\ pc' = "tile"
    /\ UNCHANGED <<indexerVars, inputVars, matched, ai, tileRows, dataset,
                   images, datasetFile, nwrites, returned, exit>>

\* lines 155-159: a band cannot be read; the asset is skipped
MeSkipAsset ==
    /\ pc = "read"
    /\ FailingBand(coverage[ti].filename, cur.x, cur.y, width, height) # 0
    /\ cur' = [cur EXCEPT !.status = "skipped"]
    /\ ai' = ai + 1
    /\ pc' = "asset"
    /\ UNCHANGED <<indexerVars, inputVars, matched, ti, tileRows, dataset,
                   images, datasetFile, nwrites, returned, exit>>

\* lines 161-197: the image is saved, the record appended and, every
\* CheckpointEvery records, the dataset written
SaveAndAppend ==
    /\ pc = "read"
    /\ FailingBand(coverage[ti].filename, cur.x, cur.y, width, height) = 0
    /\ images' = images \cup {ImageName(cur)}
    /\ dataset' = Append(dataset, ExampleRecord(coverage[ti].filename, cur))
    /\ cur' = [cur EXCEPT !.status = "saved"]

\* lines 161-204, the cap is not reached: on to the next asset
MeAppend ==
    /\ SaveAndAppend
    /\ ~CapReached(Len(dataset'), max_length)
    /\ IF CheckpointDue(Len(dataset'))
       THEN /\ datasetFile' = ValidFile(dataset')
            /\ nwrites' = nwrites + 1
       ELSE UNCHANGED <<datasetFile, nwrites>>
    /\ ai' = ai + 1
    /\ pc' = "asset"
    /\ UNCHANGED <<indexerVars, inputVars, matched, ti, tileRows, returned,
                   exit>>

\* lines 161-202, the cap is reached: the dataset is written and the
\* function returns (a bare return)
MeAppendCap ==
    /\ SaveAndAppend
    /\ CapReached(Len(dataset'), max_length)
    /\ datasetFile' = ValidFile(dataset')
    /\ nwrites' = nwrites + (IF CheckpointDue(Len(dataset')) THEN 2 ELSE 1)
    /\ returned' = None
    /\ exit' = "cap"
    /\ pc' = "done"
    /\ UNCHANGED <<indexerVars, inputVars, matched, ti, tileRows, ai>>

\* line 134 exhausted: on to the next tile (line 121)
MeNextTile ==
    /\ pc = "asset"
    /\ ai > Len(tileRows)
    /\ ti' = ti + 1
    /\ pc' = "tile"
    /\ UNCHANGED <<indexerVars, inputVars, matched, tileRows, ai, cur, dataset,
                   images, datasetFile, nwrites, returned, exit>>

\* line 121 exhausted: the function falls off its end
MeFinish ==
    /\ pc = "tile"
    /\ ti > Len(coverage)
    /\ returned' = None
    /\ exit' = "exhausted"
    /\ pc' = "done"
    /\ UNCHANGED <<indexerVars, inputVars, matched, ti, tileRows, ai, cur,
                   dataset, images, datasetFile, nwrites>>

Offsets == (OffsetRange(width) \X OffsetRange(height))

Next ==
    \/ \E resume \in BOOLEAN : MplStart(resume)
    \/ MplIndexTile
    \/ MplAbort
    \/ MplReturn
    \/ SaveCoverage
    \/ MeStart
    \/ MeOpenTile
    \/ \E offset \in Offsets : MeDraw(offset)
    \/ MeRandintError
    \/ MeSkipAsset
    \/ MeAppend
    \/ MeAppendCap
    \/ MeNextTile
    \/ MeFinish

Spec == Init /\ [][Next]_vars

(***************************************************************************)
(* Properties.                                                             *)
(***************************************************************************)
\* the raster behind the tile make_examples has open
OpenRaster == Disk(basename(coverage[ti].filename))

\* the window of the asset in hand cannot be read from all three bands
WindowUnreadable ==
    \/ cur.x < 0
    \/ cur.y < 0
    \/ cur.x + width > OpenRaster.cols
    \/ cur.y + height > OpenRaster.rows
    \/ OpenRaster.nbands < 3

\* C1: with max_length >= 1 the dataset never holds more than max_length
\* records, and the moment it holds max_length records the run has stopped
\* with the dataset file holding exactly these max_length records; no step
\* is taken after the stop.
C1_CapStopsRun ==
    /\ [](max_length >= 1 =>
            /\ Len(dataset) <= max_length
            /\ Len(dataset) = max_length =>
                  /\ pc = "done"
                  /\ exit = "cap"
                  /\ datasetFile.state = "valid"
                  /\ datasetFile.rows = dataset
                  /\ Len(datasetFile.rows) = max_length)
    /\ [][exit # "cap"]_vars

C1_Witness ==
    /\ pc = "done"
    /\ exit = "cap"
    /\ max_length = 2
    /\ Len(dataset) = 2
    /\ datasetFile.rows = dataset
    /\ ai < Len(tileRows)

\* C2: a step that appends the record making the dataset length a positive
\* multiple of 50 writes the dataset file, and after it the file holds the
\* in-memory records (at least 50, a multiple of 50); a step that skips an
\* asset writes nothing.
C2_CheckpointEvery50 ==
    [][ /\ (Len(dataset') = Len(dataset) + 1 /\ Len(dataset') % 50 = 0) =>
              /\ nwrites' > nwrites
              /\ datasetFile'.state = "valid"
              /\ datasetFile'.rows = dataset'
              /\ Len(datasetFile'.rows) >= 50
              /\ Len(datasetFile'.rows) % 50 = 0
        /\ (pc = "read" /\ dataset' = dataset) =>
              /\ nwrites' = nwrites
              /\ datasetFile' = datasetFile ]_vars

C2_Witness ==
    /\ Len(dataset) = 100
    /\ nwrites = 2
    /\ datasetFile.rows = dataset
    /\ cur.status = "saved"
    /\ pc = "asset"

\* C3: when make_examples ends because tiles and assets are exhausted, the
\* dataset file holds every record appended during the run.
C3_FinalWriteOnExhaustion ==
    (pc = "done" /\ exit = "exhausted" /\ Len(dataset) >= 1) =>
        /\ datasetFile.state = "valid"
        /\ datasetFile.rows = dataset

\* C4: for every produced record the asset's rounded pixel position lies
\* between 8 and width - 8 (height - 8) pixels from the left (upper) edge of
\* the window that was read.
C4_MarginEight ==
    cur.status = "saved" =>
        /\ 8 <= cur.px - cur.x
        /\ cur.px - cur.x <= width - 8
        /\ 8 <= cur.py - cur.y
        /\ cur.py - cur.y <= height - 8

\* the directory entry e ends in ".tif"
IsTifEntry(e) ==
    /\ Len(e) >= 4
    /\ e[Len(e) - 3] = "."
    /\ e[Len(e) - 2] = "t"
    /\ e[Len(e) - 1] = "i"
    /\ e[Len(e)] = "f"

\* the footprint of a raster: upper-left, upper-right, lower-right, lower-left
Footprint(r) ==
    << <<r.ox, r.oy>>,
       <<r.ox + r.cols * r.psx, r.oy>>,
       <<r.ox + r.cols * r.psx, r.oy + r.rows * r.psy>>,
       <<r.ox, r.oy + r.rows * r.psy>> >>

\* C5: without a usable resume file the returned index holds exactly one
\* record for each directory entry ending in ".tif", none for another
\* entry, and each footprint is the polygon of the tile's corners in the
\* order upper-left, upper-right, lower-right, lower-left.
C5_OneRecordPerTif ==
    (pc = "indexed" /\ (~resume_file \/ coverageFile.state # "valid")) =>
        /\ \A i \in 1..Len(listing) :
              IsTifEntry(listing[i]) =>
                 Cardinality({j \in 1..Len(coverage) :
                     coverage[j].filename = path \o listing[i]}) = 1
        /\ \A j \in 1..Len(coverage) :
              \E i \in 1..Len(listing) :
                 /\ IsTifEntry(listing[i])
                 /\ coverage[j].filename = path \o listing[i]
                 /\ coverage[j].geometry = Footprint(Disk(listing[i]))

C5_Witness ==
    /\ pc = "indexed"
    /\ resume_file
    /\ coverageFile.state = "corrupt"
    /\ Len(listing) = 3
    /\ Len(coverage) = 2

\* C6: when a run resumes from the index the previous run saved, every tile
\* file name appears at most once in the resulting index.
C6_NoDuplicateOnResume ==
    pc = "indexed" =>
        \A i, j \in 1..Len(coverage) :
            i # j => coverage[i].filename # coverage[j].filename

\* C7: at the end of a make_examples run the number of image files equals
\* the number of records of the dataset.
C7_OneImagePerRecord ==
    pc = "done" => Cardinality(images) = Len(dataset)

\* C8: make_examples returns the dataset of created examples on both exit
\* paths.
C8_ReturnsDataset ==
    pc = "done" => returned = Value(dataset)

\* C9: when the pixel block of an asset cannot be read, the step taken
\* appends no record, writes no image and no dataset file, and goes on with
\* the next matched asset of the same tile.
C9_FailedReadSkips ==
    [][ (pc = "read" /\ WindowUnreadable) =>
            /\ dataset' = dataset
            /\ images' = images
            /\ datasetFile' = datasetFile
            /\ nwrites' = nwrites
            /\ pc' = "asset"
            /\ ti' = ti
            /\ tileRows' = tileRows
            /\ ai' = ai + 1 ]_vars

C9_Witness ==
    /\ pc = "asset"
    /\ cur.status = "skipped"
    /\ datasetFile.state = "valid"
    /\ Len(dataset) = 50
    /\ ai <= Len(tileRows)

\* C10: the bounding box of every record is 30 pixels wide and 25 pixels
\* high, and the box of the record just appended is centered on
\* (width // 2 + offset_x, height // 2 + offset_y).
C10_BBoxSize ==
    /\ \A i \in 1..Len(dataset) :
          /\ dataset[i].lr_x - dataset[i].ul_x = 30
          /\ dataset[i].lr_y - dataset[i].ul_y = 25
    /\ cur.status = "saved" =>
          LET rec == dataset[Len(dataset)]
          IN  /\ rec.ul_x + rec.lr_x = 2 * ((width \div 2) + cur.offset[1])
              /\ rec.ul_y + rec.lr_y = 2 * ((height \div 2) + cur.offset[2])

====
